---- MODULE Spec2Model ----
(***************************************************************************)
(* Paginated cursor over a Snowflake result set                            *)
(* (SnowflakeCortexPaginator), the metrics collector layered on it         *)
(* (MonitoredPaginator), the retry decorator (retry_on_failure), the page   *)
(* cache (CachedPaginator) and process_pages_parallel.                     *)
(*                                                                         *)
(* A generator is modelled by its suspension point: one action is one      *)
(* next() / close() of the consumer, which runs the generator body up to   *)
(* the next yield, return or raise.  The database cursor is an external    *)
(* collaborator: what one execute/fetchall answers is chosen by the        *)
(* environment at each call (the rows of the offset window, an empty       *)
(* result set, or a failure).                                              *)
(***************************************************************************)
EXTENDS Integers, Sequences, FiniteSets, TLC

\* ---- bounds of the model ------------------------------------------------
MaxRows == 3
MaxPageSize == 2
MaxCeiling == 2
MaxSessions == 2
MaxTime == 2
MaxDelay == 1
MaxRetries == 3
MaxBackoff == 3
MaxCalls == 2
MaxTtlSpans == 1
MaxPageNum == 2
MaxPuts == 2
NumWriters == 2
MaxRanges == 3
MaxWorkers == 2
RangeWidth == 2

VARIABLES
    srcRows,      \* number of rows the query selects (the source), fixed
    connection,   \* self.connection: "none" | "open"
    gen,          \* the paginate_cortex_results generator: locals + position
    fetchLog,     \* history: the execute/fetchall calls of the session
    yielded,      \* history: the pages the generator yielded in the session
    raised,       \* history: the failure the generator raised, or NoExc
    cursorLog,    \* history: what happened to the session's cursor
    sessions,     \* number of sessions started on the paginator object
    now,          \* time.time() / datetime.now()
    mon,          \* the paginate_with_monitoring generator
    metrics,      \* self.metrics, a PaginationMetrics
    metrics0,     \* history: self.metrics when the monitored session began
    received,     \* history: the pages paginate_with_monitoring yielded
    mRaised,      \* history: the failure paginate_with_monitoring raised
    rw,           \* retry_on_failure: decorator arguments + wrapper locals
    invoked,      \* history: the invocations of func in this wrapper call
    slept,        \* history: the time.sleep arguments of this wrapper call
    redis,        \* the Redis store: key -> [value, expire]
    redisUp,      \* whether the Redis backend is reachable
    writers,      \* the cache_page calls in flight, of concurrent sessions
    puts,         \* number of cache_page calls made
    got,          \* what the get_cached_page call just made returned
    cacheErr,     \* the failure the cache call just made raised, or NoExc
    applied,      \* history: (query_hash, page_num) -> the store applied last;
                  \* "raced": another store on its key was applied while it
                  \* was in flight, "over": the page it replaced
    page_ranges,  \* process_pages_parallel: the (start, end) offset ranges
    max_workers,  \* size of the ThreadPoolExecutor
    futures,      \* one future per range: its worker's position and outcome
    orch          \* process_pages_parallel itself: position, all_results

vars == <<srcRows, connection, gen, fetchLog, yielded, raised, cursorLog,
          sessions, now, mon, metrics, metrics0, received, mRaised,
          rw, invoked, slept,
          redis, redisUp, writers, puts, got, cacheErr, applied,
          page_ranges, max_workers, futures, orch>>

cacheVars == <<redis, redisUp, writers, puts, got, cacheErr, applied>>
parVars == <<page_ranges, max_workers, futures, orch>>

retryVars == <<rw, invoked, slept>>

pagVars == <<gen, fetchLog, yielded, raised, cursorLog>>
monVars == <<mon, metrics, metrics0, received, mRaised>>

\* ---- values ---------------------------------------------------------------
\* Optional[int]: <<>> is None, <<n>> is the integer n.
None == <<>>
Some(n) == <<n>>

NoExc == [kind |-> "none", at |-> 0]
ConnectionFailure == [kind |-> "ConnectionFailure", at |-> 0]
QueryExecutionFailure(offset) == [kind |-> "QueryExecutionFailure", at |-> offset]

Min(a, b) == IF a < b THEN a ELSE b
Ceil(a, b) == (a + b - 1) \div b

RECURSIVE SumCounts(_)
SumCounts(pages) ==
    IF pages = <<>> THEN 0
    ELSE pages[1].total_records + SumCounts(Tail(pages))

RECURSIVE ConcatData(_)
ConcatData(pages) ==
    IF pages = <<>> THEN <<>>
    ELSE pages[1].data \o ConcatData(Tail(pages))

\* ---- the source -----------------------------------------------------------
\* Rows are numbered 1..n in the ORDER BY order; a row is a 1-tuple.
\* "... LIMIT {limit} OFFSET {offset}" selects the window [offset, offset+limit).
FetchWindow(n, offset, limit) ==
    [i \in 1..(Min(offset + limit, n) - Min(offset, n)) |-> <<offset + i>>]

\* What one cursor.execute + cursor.fetchall answers: "rows" the window of
\* the table, "empty" an empty result set whatever the table holds, "fail"
\* a raised exception.
Outcomes == {"rows", "empty", "fail"}

fetchall(n, offset, limit, outcome) ==
    IF outcome = "rows" THEN FetchWindow(n, offset, limit) ELSE <<>>

\* ---- paginate_cortex_results ---------------------------------------------
\* columns = [desc[0] for desc in cursor.description];  dict(zip(columns, row))
RowDict(row) == [customer_id |-> row[1]]

PageData_short(results) == [i \in 1..(Len(results) - 1) |-> RowDict(results[i])]

PageData(results) == [i \in 1..Len(results) |-> RowDict(results[i])]

MakePage(page_num, page_data, execution_time, offset) ==
    [page_number |-> page_num + 1,
     total_records |-> Len(page_data),
     data |-> page_data,
     execution_time |-> execution_time,
     offset |-> offset]

\* "if max_pages and page_num >= max_pages: break"
CeilingReached(max_pages, page_num) ==
    /\ max_pages # None
    /\ max_pages[1] # 0
    /\ page_num >= max_pages[1]

NoResults_never(results) == FALSE

\* "if not results: break"
NoResults(results) == results = <<>>

NextOffset_row(offset, page_size) == offset + 1

NextOffset_skip(offset, page_size) == offset + page_size + 1

\* "offset += page_size"
NextOffset(offset, page_size) == offset + page_size

\* "page_num += 1"
NextPageNum(page_num) == page_num + 1

Reraise_wrapped(e) == [kind |-> "PaginationError", at |-> e.at]

\* "except Exception as e: ...; raise"
Reraise(e) == e

NoGen == [state |-> "none", page_size |-> 1, max_pages |-> None,
          offset |-> 0, page_num |-> 0, cursor |-> "none"]

\* Calling the generator function binds the arguments; the body has not run.
NewGen(page_size, max_pages) ==
    [state |-> "created", page_size |-> page_size, max_pages |-> max_pages,
     offset |-> 0, page_num |-> 0, cursor |-> "none"]

\* "finally: cursor.close()"
CursorClose(g) == [g EXCEPT !.cursor = "closed"]

\* One pass of the "while True" body, entered with the locals of g and an
\* open cursor.  Returns the generator after the pass and what the consumer
\* of the generator gets: a page ("yield"), StopIteration ("stop") or an
\* exception ("raise").
LoopPass(g, n, outcome, d) ==
    IF CeilingReached(g.max_pages, g.page_num)
    THEN [gen |-> [CursorClose(g) EXCEPT !.state = "finished"],
          result |-> "stop", executed |-> FALSE,
          page |-> <<>>, exc |-> NoExc, results |-> <<>>]
    ELSE IF outcome = "fail"
    THEN [gen |-> [CursorClose(g) EXCEPT !.state = "raised"],
          result |-> "raise", executed |-> TRUE,
          page |-> <<>>, exc |-> Reraise(QueryExecutionFailure(g.offset)),
          results |-> <<>>]
    ELSE LET results == fetchall(n, g.offset, g.page_size, outcome)
         IN IF NoResults(results)
            THEN [gen |-> [CursorClose(g) EXCEPT !.state = "finished"],
                  result |-> "stop", executed |-> TRUE,
                  page |-> <<>>, exc |-> NoExc, results |-> results]
            ELSE [gen |-> [g EXCEPT !.state = "suspended"],
                  result |-> "yield", executed |-> TRUE,
                  page |-> <<MakePage(g.page_num, PageData(results), d, g.offset)>>,
                  exc |-> NoExc, results |-> results]

\* next() on the generator.  From "created" the body starts: lazy connect,
\* cursor, offset = 0, page_num = 0.  From "suspended" it continues after
\* the yield: offset += page_size, page_num += 1.
GenNext(g, conn, n, connOk, outcome, d) ==
    IF g.state = "created"
    THEN IF conn = "none" /\ ~connOk
         THEN [gen |-> [g EXCEPT !.state = "raised"], conn |-> "none",
               result |-> "raise", executed |-> FALSE, opened |-> FALSE,
               page |-> <<>>, exc |-> ConnectionFailure, results |-> <<>>]
         ELSE LoopPass([g EXCEPT !.cursor = "open", !.offset = 0, !.page_num = 0],
                       n, outcome, d)
              @@ [conn |-> "open", opened |-> TRUE]
    ELSE LoopPass([g EXCEPT !.offset = NextOffset(g.offset, g.page_size),
                            !.page_num = NextPageNum(g.page_num)],
                  n, outcome, d)
         @@ [conn |-> conn, opened |-> FALSE]

GenClose_leak(g) == [g EXCEPT !.state = "closed"]

\* generator.close(): GeneratorExit is raised at the yield; it is not an
\* Exception, so only the finally clause runs.  A generator whose body never
\* started is just marked closed.
GenClose(g) ==
    IF g.state = "suspended"
    THEN [CursorClose(g) EXCEPT !.state = "closed"]
    ELSE [g EXCEPT !.state = "closed"]

Ended(g) == g.state \in {"none", "finished", "raised", "closed"}

\* history of the cursor after a next()
CursorEvents(r) ==
    (IF r.opened THEN <<"open">> ELSE <<>>)
    \o (IF r.executed THEN <<"execute">> ELSE <<>>)
    \o (IF r.gen.cursor = "closed" THEN <<"close">> ELSE <<>>)

FetchEntry(r, outcome) ==
    [offset |-> r.gen.offset, limit |-> r.gen.page_size,
     outcome |-> outcome, rows |-> Len(r.results)]

\* ---- MonitoredPaginator ----------------------------------------------------
\* A float quotient a / b, kept as the pair it was computed from.
Frac(a, b) == [num |-> a, den |-> b]
Zero == Frac(0, 1)
FracEq(x, y) == x.num * y.den = y.num * x.den

\* str(e)
Str(e) == <<e.kind, e.at>>

\* PaginationMetrics()
NewMetrics ==
    [total_pages |-> 0, total_records |-> 0, total_execution_time |-> 0,
     avg_page_time |-> Zero, errors |-> <<>>]

\* "self.metrics.total_pages += 1; self.metrics.total_records += page['total_records']"
OnPage(m, page) ==
    [m EXCEPT !.total_pages = @ + 1,
              !.total_records = @ + page.total_records]

OnError_silent(m, e) == m

\* "except Exception as e: self.metrics.errors.append(str(e))"
OnError(m, e) == [m EXCEPT !.errors = Append(@, Str(e))]

\* "finally: self.metrics.total_execution_time = time.time() - start_time; ..."
Finalize(m, t, start_time) ==
    LET m1 == [m EXCEPT !.total_execution_time = t - start_time]
    IN IF m1.total_pages > 0
       THEN [m1 EXCEPT !.avg_page_time =
                           Frac(m1.total_execution_time, m1.total_pages)]
       ELSE m1

get_metrics_summary(m) ==
    [total_pages_processed |-> m.total_pages,
     total_records_processed |-> m.total_records,
     total_execution_time_seconds |-> m.total_execution_time,
     average_page_execution_time |-> m.avg_page_time,
     records_per_second |-> IF m.total_execution_time > 0
                            THEN Frac(m.total_records, m.total_execution_time)
                            ELSE Zero,
     error_count |-> Len(m.errors),
     errors |-> m.errors]

NoMon == [state |-> "none", page_size |-> 1, start_time |-> 0, end_time |-> 0]

Active(g) == g.state \in {"created", "suspended"}

\* ---- retry_on_failure --------------------------------------------------------
RECURSIVE Pow(_, _)
Pow(b, e) == IF e = 0 THEN 1 ELSE b * Pow(b, e - 1)

RECURSIVE SumSeq(_)
SumSeq(q) == IF q = <<>> THEN 0 ELSE q[1] + SumSeq(Tail(q))

\* the exception object raised by the j-th invocation of func
OperationFailed(j) == [kind |-> "OperationFailed", at |-> j]
\* "raise None"
TypeError == [kind |-> "TypeError", at |-> 0]

WaitTime_linear(backoff_factor, attempt) == backoff_factor * attempt

\* "wait_time = backoff_factor ** attempt"
WaitTime(backoff_factor, attempt) == Pow(backoff_factor, attempt)

KeepException_first(last_exception, e) ==
    IF last_exception = NoExc THEN e ELSE last_exception

\* "last_exception = e"
KeepException(last_exception, e) == e

\* "if attempt < max_retries - 1"
AttemptsRemain(attempt, max_retries) == attempt < max_retries - 1

\* the decorated function, not being called
Decorated(max_retries, backoff_factor) ==
    [pc |-> "idle", max_retries |-> max_retries,
     backoff_factor |-> backoff_factor,
     attempt |-> 0, last_exception |-> NoExc, wait_time |-> 0,
     returned |-> None, raised |-> NoExc, calls |-> 0]

\* ---- CachedPaginator ---------------------------------------------------------
\* "self.cache_ttl = 3600  # 1 hour"
cache_ttl == 3600

\* Strings are sequences of characters.  str(page_num) in decimal.
Digit(d) == <<"0", "1", "2", "3", "4", "5", "6", "7", "8", "9">>[d + 1]

RECURSIVE StrInt(_)
StrInt(n) ==
    IF n < 10 THEN <<Digit(n)>> ELSE StrInt(n \div 10) \o <<Digit(n % 10)>>

CacheKey_noPage(query_hash, page_num) == <<"cortex_page", ":">> \o query_hash

\* f"cortex_page:{query_hash}:{page_num}"
CacheKey(query_hash, page_num) ==
    <<"cortex_page", ":">> \o query_hash \o <<":">> \o StrInt(page_num)

\* pickle.dumps / pickle.loads
dumps(page) == <<"pickle", page>>
loads(data) == data[2]

\* redis_client.get(key) at time t: the value of an entry that has not
\* expired, else None
RedisGet(store, key, t) ==
    IF key \in DOMAIN store /\ t < store[key].expire
    THEN Some(store[key].value) ELSE None

setex_keepttl(store, key, ttl, value, t) ==
    (key :> [value |-> value,
             expire |-> IF key \in DOMAIN store THEN store[key].expire
                        ELSE t + ttl]) @@ store

\* redis_client.setex(key, ttl, value) at time t
setex(store, key, ttl, value, t) ==
    (key :> [value |-> value, expire |-> t + ttl]) @@ store

RedisConnectionError == [kind |-> "RedisConnectionError", at |-> 0]

\* "if cached_data: return pickle.loads(cached_data)" / "return None"
CachedResult(cached_data) ==
    IF cached_data # None /\ cached_data[1] # <<>>
    THEN Some(loads(cached_data[1])) ELSE None

\* the query hashes and pages the sessions use
Hashes == {<<"a">>, <<"a", ":", "1">>}
CachePages == {MakePage(k - 1, PageData(FetchWindow(k, k - 1, 1)), 0, k - 1) :
                  k \in 1..2}

NoGet == [called |-> FALSE, query_hash |-> <<>>, page_num |-> 0, result |-> None]

\* ---- process_pages_parallel ------------------------------------------------
\* "def paginate_cortex_results(self, query, page_size=1000, max_pages=None)"
Parameters == {"query", "page_size", "max_pages"}

\* the arguments process_single_range passes: "query, page_size=1000,
\* offset_start=start_offset, offset_end=end_offset"
PassedArguments == {"query", "page_size", "offset_start", "offset_end"}

UnexpectedKeyword == [kind |-> "TypeError", at |-> 1]

\* A call binds its arguments first: a keyword that is not a parameter raises
\* TypeError at the call, before any of the body runs.
BindArguments(passed, parameters) ==
    IF passed \subseteq parameters THEN NoExc ELSE UnexpectedKeyword

\* "page_size=1000"
WorkerPageSize == 1000

\* the records of all pages of a session run to its end over n rows
SessionRecords(n, page_size) ==
    ConcatData([k \in 1..Ceil(n, page_size) |->
                   MakePage(k - 1,
                            PageData(FetchWindow(n, (k - 1) * page_size, page_size)),
                            0, (k - 1) * page_size)])

\* process_single_range(page_range): "results = []", the call of
\* paginate_cortex_results and, if it binds, the loop over its pages.
process_single_range(page_range, n) ==
    LET e == BindArguments(PassedArguments, Parameters) IN
    IF e # NoExc
    THEN [exc |-> e, results |-> <<>>, conn |-> "none"]
    ELSE [exc |-> NoExc, results |-> SessionRecords(n, WorkerPageSize),
          conn |-> "paginator.connection"]

NoFuture == [state |-> "pending", exc |-> NoExc, results |-> <<>>, conn |-> "none"]
NoCall == [pc |-> "idle", all_results |-> <<>>, completed |-> <<>>, exc |-> NoExc]

OnCompleted_raise(o, i, f) ==
    IF f.exc = NoExc
    THEN [o EXCEPT !.all_results = @ \o f.results, !.completed = Append(@, i)]
    ELSE [o EXCEPT !.pc = "raised", !.exc = f.exc, !.completed = Append(@, i)]

\* one pass of "for future in as_completed(future_to_range)": "try: results
\* = future.result(); all_results.extend(results)" / "except Exception as e:
\* print(...)"
OnCompleted(o, i, f) ==
    IF f.exc = NoExc
    THEN [o EXCEPT !.all_results = @ \o f.results, !.completed = Append(@, i)]
    ELSE [o EXCEPT !.completed = Append(@, i)]

\* as_completed is exhausted when every future has been yielded
AllCompleted(o, n) == Len(o.completed) = n

Range(q) == {q[i] : i \in 1..Len(q)}

\* ---- actions ----------------------------------------------------------------
Init ==
    /\ srcRows \in 0..MaxRows
    /\ connection = "none"
    /\ gen = NoGen
    /\ fetchLog = <<>>
    /\ yielded = <<>>
    /\ raised = NoExc
    /\ cursorLog = <<>>
    /\ sessions = 0
    /\ now = 0
    /\ mon = NoMon
    /\ metrics = NewMetrics
    /\ metrics0 = NewMetrics
    /\ received = <<>>
    /\ mRaised = NoExc
    /\ rw = Decorated(3, 2)
    /\ invoked = <<>>
    /\ slept = <<>>
    /\ redis = <<>>
    /\ redisUp = TRUE
    /\ writers = <<>>
    /\ puts = 0
    /\ got = NoGet
    /\ cacheErr = NoExc
    /\ applied = <<>>
    /\ page_ranges = <<>>
    /\ max_workers = 0
    /\ futures = <<>>
    /\ orch = NoCall

\* paginator.paginate_cortex_results(query, page_size, max_pages)
paginate_cortex_results(page_size, max_pages) ==
    /\ Ended(gen) /\ ~Active(mon)
    /\ sessions < MaxSessions
    /\ gen' = NewGen(page_size, max_pages)
    /\ sessions' = sessions + 1
    /\ fetchLog' = <<>>
    /\ yielded' = <<>>
    /\ raised' = NoExc
    /\ cursorLog' = <<>>
    /\ mon' = NoMon
    /\ received' = <<>>
    /\ mRaised' = NoExc
    /\ UNCHANGED <<srcRows, connection, now, metrics, metrics0, retryVars, cacheVars, parVars>>

\* next(pages)
Next_page(connOk, outcome, d) ==
    /\ Active(gen) /\ ~Active(mon)
    /\ now + d <= MaxTime
    /\ LET r == GenNext(gen, connection, srcRows, connOk, outcome, d)
       IN /\ gen' = r.gen
          /\ connection' = r.conn
          /\ fetchLog' = IF r.executed
                         THEN Append(fetchLog, FetchEntry(r, outcome))
                         ELSE fetchLog
          /\ yielded' = yielded \o r.page
          /\ raised' = r.exc
          /\ cursorLog' = cursorLog \o CursorEvents(r)
          /\ now' = IF r.executed THEN now + d ELSE now
    /\ UNCHANGED <<srcRows, sessions, monVars, retryVars, cacheVars, parVars>>

\* pages.close()
Close_pages ==
    /\ Active(gen) /\ ~Active(mon)
    /\ gen' = GenClose(gen)
    /\ cursorLog' = IF gen.cursor = "open" /\ gen'.cursor = "closed"
                    THEN Append(cursorLog, "close") ELSE cursorLog
    /\ UNCHANGED <<srcRows, connection, fetchLog, yielded, raised, sessions, now,
                   monVars, retryVars, cacheVars, parVars>>

\* paginator.paginate_with_monitoring(query, page_size)
paginate_with_monitoring(page_size) ==
    /\ Ended(gen) /\ ~Active(mon)
    /\ sessions < MaxSessions
    /\ mon' = [state |-> "created", page_size |-> page_size,
               start_time |-> 0, end_time |-> 0]
    /\ sessions' = sessions + 1
    /\ gen' = NoGen
    /\ fetchLog' = <<>>
    /\ yielded' = <<>>
    /\ raised' = NoExc
    /\ cursorLog' = <<>>
    /\ metrics0' = metrics
    /\ received' = <<>>
    /\ mRaised' = NoExc
    /\ UNCHANGED <<srcRows, connection, now, metrics, retryVars, cacheVars, parVars>>

\* next(monitored): the body starts ("start_time = time.time()" and the call
\* of paginate_cortex_results(query, page_size)) or continues after its
\* yield, and asks the inner generator for its next page.
Next_monitored(connOk, outcome, d) ==
    /\ Active(mon)
    /\ now + d <= MaxTime
    /\ LET inner == IF mon.state = "created"
                    THEN NewGen(mon.page_size, None) ELSE gen
           start == IF mon.state = "created" THEN now ELSE mon.start_time
           r == GenNext(inner, connection, srcRows, connOk, outcome, d)
           t == IF r.executed THEN now + d ELSE now
       IN /\ gen' = r.gen
          /\ connection' = r.conn
          /\ fetchLog' = IF r.executed
                         THEN Append(fetchLog, FetchEntry(r, outcome))
                         ELSE fetchLog
          /\ yielded' = yielded \o r.page
          /\ raised' = r.exc
          /\ cursorLog' = cursorLog \o CursorEvents(r)
          /\ now' = t
          /\ CASE r.result = "yield" ->
                    /\ metrics' = OnPage(metrics, r.page[1])
                    /\ mon' = [mon EXCEPT !.state = "suspended",
                                          !.start_time = start]
                    /\ received' = Append(received, r.page[1])
                    /\ mRaised' = NoExc
               [] r.result = "stop" ->
                    /\ metrics' = Finalize(metrics, t, start)
                    /\ mon' = [mon EXCEPT !.state = "finished",
                                          !.start_time = start, !.end_time = t]
                    /\ received' = received
                    /\ mRaised' = NoExc
               [] r.result = "raise" ->
                    /\ metrics' = Finalize(OnError(metrics, r.exc), t, start)
                    /\ mon' = [mon EXCEPT !.state = "raised",
                                          !.start_time = start, !.end_time = t]
                    /\ received' = received
                    /\ mRaised' = Reraise(r.exc)
    /\ UNCHANGED <<srcRows, sessions, metrics0, retryVars, cacheVars, parVars>>

\* monitored.close(): GeneratorExit at the yield runs the finally clause
\* only; the inner generator loses its last reference and is closed too.
Close_monitored ==
    /\ Active(mon)
    /\ IF mon.state = "suspended"
       THEN /\ metrics' = Finalize(metrics, now, mon.start_time)
            /\ mon' = [mon EXCEPT !.state = "closed", !.end_time = now]
            /\ gen' = GenClose(gen)
            /\ cursorLog' = IF gen.cursor = "open" /\ gen'.cursor = "closed"
                            THEN Append(cursorLog, "close") ELSE cursorLog
       ELSE /\ mon' = [mon EXCEPT !.state = "closed"]
            /\ UNCHANGED <<metrics, gen, cursorLog>>
    /\ UNCHANGED <<srcRows, connection, fetchLog, yielded, raised, sessions, now,
                   metrics0, received, mRaised, retryVars, cacheVars, parVars>>

Tick ==
    /\ now < MaxTime
    /\ now' = now + 1
    /\ UNCHANGED <<srcRows, connection, pagVars, sessions, monVars, retryVars, cacheVars, parVars>>

Next ==
    \/ \E ps \in 1..MaxPageSize, mp \in {None} \cup {Some(c) : c \in 0..MaxCeiling} :
          paginate_cortex_results(ps, mp)
    \/ \E connOk \in BOOLEAN, outcome \in Outcomes, d \in 0..MaxDelay :
          Next_page(connOk, outcome, d)
    \/ Close_pages
    \/ Tick

\* sessions on a SnowflakeCortexPaginator
Spec == Init /\ [][Next]_vars

NextMonitored ==
    \/ \E ps \in 1..MaxPageSize : paginate_with_monitoring(ps)
    \/ \E connOk \in BOOLEAN, outcome \in Outcomes, d \in 0..MaxDelay :
          Next_monitored(connOk, outcome, d)
    \/ Close_monitored
    \/ Tick

\* sessions on a MonitoredPaginator
SpecMonitored == Init /\ [][NextMonitored]_vars

\* ---- the retry wrapper on its own -----------------------------------------
InitRetry ==
    /\ srcRows = 0
    /\ connection = "none"
    /\ gen = NoGen
    /\ fetchLog = <<>>
    /\ yielded = <<>>
    /\ raised = NoExc
    /\ cursorLog = <<>>
    /\ sessions = 0
    /\ now = 0
    /\ mon = NoMon
    /\ metrics = NewMetrics
    /\ metrics0 = NewMetrics
    /\ received = <<>>
    /\ mRaised = NoExc
    /\ \E mr \in 0..MaxRetries, bf \in 1..MaxBackoff : rw = Decorated(mr, bf)
    /\ invoked = <<>>
    /\ slept = <<>>
    /\ redis = <<>>
    /\ redisUp = TRUE
    /\ writers = <<>>
    /\ puts = 0
    /\ got = NoGet
    /\ cacheErr = NoExc
    /\ applied = <<>>
    /\ page_ranges = <<>>
    /\ max_workers = 0
    /\ futures = <<>>
    /\ orch = NoCall

otherVars == <<srcRows, connection, pagVars, sessions, now, monVars, cacheVars, parVars>>

\* wrapper(*args, **kwargs): "last_exception = None" and the for loop is
\* entered; with an empty range(max_retries) "raise last_exception" is next.
wrapper ==
    /\ rw.pc \in {"idle", "returned", "raised"}
    /\ rw.calls < MaxCalls
    /\ rw' = [rw EXCEPT !.pc = IF rw.max_retries > 0 THEN "try" ELSE "raised",
                        !.attempt = 0,
                        !.last_exception = NoExc,
                        !.wait_time = 0,
                        !.returned = None,
                        !.raised = IF rw.max_retries > 0 THEN NoExc ELSE TypeError,
                        !.calls = @ + 1]
    /\ invoked' = <<>>
    /\ slept' = <<>>
    /\ UNCHANGED otherVars

\* "try: return func(*args, **kwargs)" with func succeeding or raising
Attempt(ok) ==
    /\ rw.pc = "try"
    /\ LET j == Len(invoked) + 1
           e == OperationFailed(j)
       IN /\ invoked' = Append(invoked, [ok |-> ok, value |-> j, exc |-> e])
          /\ IF ok
             THEN rw' = [rw EXCEPT !.pc = "returned", !.returned = Some(j)]
             ELSE LET last == KeepException(rw.last_exception, e)
                  IN IF AttemptsRemain(rw.attempt, rw.max_retries)
                     THEN rw' = [rw EXCEPT !.pc = "sleep",
                                           !.last_exception = last,
                                           !.wait_time = WaitTime(rw.backoff_factor,
                                                                  rw.attempt)]
                     ELSE rw' = [rw EXCEPT !.pc = "raised",
                                           !.last_exception = last,
                                           !.raised = last]
    /\ UNCHANGED <<slept, otherVars>>

\* "time.sleep(wait_time); continue"
Sleep ==
    /\ rw.pc = "sleep"
    /\ slept' = Append(slept, rw.wait_time)
    /\ rw' = [rw EXCEPT !.pc = "try", !.attempt = @ + 1]
    /\ UNCHANGED <<invoked, otherVars>>

NextRetry ==
    \/ wrapper
    \/ \E ok \in BOOLEAN : Attempt(ok)
    \/ Sleep

SpecRetry == InitRetry /\ [][NextRetry]_vars


\* ---- the page cache on its own --------------------------------------------
nonCacheVars == <<srcRows, connection, pagVars, sessions, monVars, retryVars,
                  parVars>>

\* cache_page(query_hash, page_num, page_data) of one session, up to the
\* call of setex: the key and the pickled page are computed.
cache_page(query_hash, page_num, page_data) ==
    /\ Len(writers) < NumWriters
    /\ puts < MaxPuts
    /\ puts' = puts + 1
    /\ writers' = Append(writers,
                         [query_hash |-> query_hash,
                          page_num |-> page_num, page |-> page_data,
                          cache_key |-> CacheKey(query_hash, page_num),
                          data |-> dumps(page_data),
                          raced |-> FALSE])
    /\ got' = NoGet
    /\ cacheErr' = NoExc
    /\ UNCHANGED <<redis, redisUp, applied, now, nonCacheVars>>

\* the setex of the i-th call in flight reaches Redis, or fails on an
\* unreachable backend; cache_page has no handler, so the failure is raised
\* to its caller.
cache_page_setex(i) ==
    /\ i \in 1..Len(writers)
    /\ LET c == writers[i]
           id == <<c.query_hash, c.page_num>>
       IN IF redisUp
          THEN /\ redis' = setex(redis, c.cache_key, cache_ttl, c.data, now)
               /\ applied' = (id :> [page |-> c.page, at |-> now,
                                     raced |-> c.raced,
                                     over |-> IF id \in DOMAIN applied
                                              THEN Some(applied[id].page)
                                              ELSE None]) @@ applied
               /\ cacheErr' = NoExc
          ELSE /\ cacheErr' = RedisConnectionError
               /\ UNCHANGED <<redis, applied>>
    /\ writers' = [j \in 1..(Len(writers) - 1) |->
                      LET o == IF j < i THEN writers[j] ELSE writers[j + 1]
                      IN IF redisUp /\ o.cache_key = writers[i].cache_key
                         THEN [o EXCEPT !.raced = TRUE] ELSE o]
    /\ got' = NoGet
    /\ UNCHANGED <<redisUp, puts, now, nonCacheVars>>

\* get_cached_page(query_hash, page_num)
get_cached_page(query_hash, page_num) ==
    /\ IF redisUp
       THEN /\ got' = [called |-> TRUE, query_hash |-> query_hash,
                       page_num |-> page_num,
                       result |-> CachedResult(
                                     RedisGet(redis, CacheKey(query_hash, page_num), now))]
            /\ cacheErr' = NoExc
       ELSE /\ got' = NoGet
            /\ cacheErr' = RedisConnectionError
    /\ UNCHANGED <<redis, redisUp, writers, puts, applied, now, nonCacheVars>>

\* time passes
Elapse(dt) ==
    /\ now + dt <= MaxTtlSpans * cache_ttl
    /\ now' = now + dt
    /\ got' = NoGet
    /\ cacheErr' = NoExc
    /\ UNCHANGED <<redis, redisUp, writers, puts, applied, nonCacheVars>>

\* the backend becomes unreachable or reachable again
BackendFlip ==
    /\ redisUp' = ~redisUp
    /\ got' = NoGet
    /\ cacheErr' = NoExc
    /\ UNCHANGED <<redis, writers, puts, applied, now, nonCacheVars>>

NextCache ==
    \/ \E h \in Hashes, n \in 1..MaxPageNum, pg \in CachePages :
          cache_page(h, n, pg)
    \/ \E i \in 1..NumWriters : cache_page_setex(i)
    \/ \E h \in Hashes, n \in 1..MaxPageNum : get_cached_page(h, n)
    \/ \E dt \in {cache_ttl - 1, cache_ttl} : Elapse(dt)
    \/ BackendFlip

InitCache == Init /\ srcRows = 0

SpecCache == InitCache /\ [][NextCache]_vars


\* ---- process_pages_parallel on its own --------------------------------------
nonParVars == <<connection, pagVars, sessions, now, monVars, retryVars, cacheVars>>

\* process_pages_parallel(paginator, query, page_ranges, max_workers): the
\* executor is created and one future is submitted per range.
process_pages_parallel(ranges, workers) ==
    /\ orch.pc = "idle"
    /\ page_ranges' = ranges
    /\ max_workers' = workers
    /\ futures' = [i \in 1..Len(ranges) |-> NoFuture]
    /\ orch' = [orch EXCEPT !.pc = "collecting"]
    /\ UNCHANGED <<srcRows, nonParVars>>

\* a free thread of the pool takes a pending future
worker_start(i) ==
    /\ i \in 1..Len(futures)
    /\ futures[i].state = "pending"
    /\ Cardinality({j \in 1..Len(futures) : futures[j].state = "running"})
          < max_workers
    /\ futures' = [futures EXCEPT ![i].state = "running"]
    /\ UNCHANGED <<srcRows, page_ranges, max_workers, orch, nonParVars>>

\* the thread runs process_single_range(page_range) and sets the future
worker_run(i) ==
    /\ i \in 1..Len(futures)
    /\ futures[i].state = "running"
    /\ futures' = [futures EXCEPT ![i] =
                      [state |-> "done"] @@
                      process_single_range(page_ranges[i], srcRows)]
    /\ UNCHANGED <<srcRows, page_ranges, max_workers, orch, nonParVars>>

\* as_completed yields a finished future and the loop body handles it
as_completed(i) ==
    /\ orch.pc = "collecting"
    /\ i \in 1..Len(futures)
    /\ futures[i].state = "done"
    /\ i \notin Range(orch.completed)
    /\ orch' = OnCompleted(orch, i, futures[i])
    /\ UNCHANGED <<srcRows, page_ranges, max_workers, futures, nonParVars>>

\* "return all_results"
return_all_results ==
    /\ orch.pc = "collecting"
    /\ AllCompleted(orch, Len(futures))
    /\ orch' = [orch EXCEPT !.pc = "returned"]
    /\ UNCHANGED <<srcRows, page_ranges, max_workers, futures, nonParVars>>

PageRanges(k) == [i \in 1..k |-> <<(i - 1) * RangeWidth, i * RangeWidth>>]

NextParallel ==
    \/ \E k \in 1..MaxRanges, w \in 1..MaxWorkers :
          process_pages_parallel(PageRanges(k), w)
    \/ \E i \in 1..MaxRanges : worker_start(i)
    \/ \E i \in 1..MaxRanges : worker_run(i)
    \/ \E i \in 1..MaxRanges : as_completed(i)
    \/ return_all_results

SpecParallel == Init /\ [][NextParallel]_vars

\* ==== properties ===========================================================
\* every fetch of the session so far was answered with the window of the table
Honest == \A k \in 1..Len(fetchLog) : fetchLog[k].outcome = "rows"

\* page k of a run over the source in which no fetch fails
ExpectedPage(k) ==
    MakePage(k - 1,
             PageData(FetchWindow(srcRows, (k - 1) * gen.page_size, gen.page_size)),
             0, (k - 1) * gen.page_size)

\* equal but for the measured execution_time
SamePage(p, q) == [p EXCEPT !.execution_time = 0] = [q EXCEPT !.execution_time = 0]

\* C1: a session without ceiling and without failing fetch over a source of
\* N rows, once exhausted, has yielded ceil(N / page_size) pages whose record
\* counts sum to N and whose records are the rows of the source, each once,
\* in source order.
C1_AllRowsOnce ==
    (gen.state = "finished" /\ gen.max_pages = None /\ Honest) =>
        /\ Len(yielded) = Ceil(srcRows, gen.page_size)
        /\ SumCounts(yielded) = srcRows
        /\ ConcatData(yielded) = [i \in 1..srcRows |-> RowDict(<<i>>)]

C1_Witness ==
    /\ gen.state = "finished" /\ gen.max_pages = None /\ Honest
    /\ srcRows = 3 /\ gen.page_size = 2
    /\ Len(yielded) = 2 /\ yielded[2].total_records = 1

\* C2: in every session the k-th fetch is issued at offset (k-1) * page_size,
\* the k-th yielded page has page_number k and offset (k-1) * page_size, and
\* the offsets of the fetches of a session are strictly increasing.
C2_Offsets ==
    /\ \A k \in 1..Len(fetchLog) : fetchLog[k].offset = (k - 1) * gen.page_size
    /\ \A k \in 1..Len(yielded) :
          /\ yielded[k].page_number = k
          /\ yielded[k].offset = (k - 1) * gen.page_size
    /\ \A j, k \in 1..Len(fetchLog) :
          j < k => fetchLog[j].offset < fetchLog[k].offset

C2_Witness ==
    /\ sessions = 2
    /\ gen.page_size = 2
    /\ Len(fetchLog) = 2 /\ fetchLog[2].offset = 2
    /\ Len(yielded) = 2 /\ yielded[2].page_number = 2

\* C3 (as claimed): with a max_pages ceiling supplied, whatever its value,
\* the session yields at most max_pages pages, issues at most max_pages
\* fetches, and having produced max_pages pages it ends without a fetch
\* failure being raised.
C3_Claim ==
    gen.max_pages # None =>
        /\ Len(yielded) <= gen.max_pages[1]
        /\ Len(fetchLog) <= gen.max_pages[1]
        /\ (Len(yielded) = gen.max_pages[1] /\ Ended(gen))
              => raised.kind # "QueryExecutionFailure"

\* C4: a fetch that returns zero rows is the last fetch of its session; no
\* page is yielded for it and the sequence has ended.
C4_EmptyEnds ==
    \A k \in 1..Len(fetchLog) :
        (fetchLog[k].outcome # "fail" /\ fetchLog[k].rows = 0) =>
            /\ k = Len(fetchLog)
            /\ gen.state = "finished"
            /\ Len(yielded) = k - 1

\* an empty answer at an offset below which the table still has rows
C4_Witness ==
    /\ fetchLog # <<>>
    /\ fetchLog[Len(fetchLog)].outcome = "empty"
    /\ fetchLog[Len(fetchLog)].offset < srcRows
    /\ Len(fetchLog) = 2
    /\ gen.state = "finished"

\* C7: when the fetch of the k-th page fails, the consumer has received
\* exactly pages 1..k-1, equal to those of a failure-free run, and then
\* receives the failure the cursor raised; the failing offset was fetched
\* once and it is the last fetch of the session.
C7_FailureAborts ==
    (gen.state = "raised" /\ fetchLog # <<>>) =>
        LET k == Len(fetchLog) IN
        /\ fetchLog[k].outcome = "fail"
        /\ \A j \in 1..(k - 1) : fetchLog[j].outcome # "fail"
        /\ Cardinality({j \in 1..k : fetchLog[j].offset = fetchLog[k].offset}) = 1
        /\ Len(yielded) = k - 1
        /\ \A j \in 1..(k - 1) : SamePage(yielded[j], ExpectedPage(j))
        /\ raised = QueryExecutionFailure(fetchLog[k].offset)

C7_Witness ==
    /\ gen.state = "raised"
    /\ Len(fetchLog) = 2 /\ fetchLog[2].outcome = "fail"
    /\ Len(yielded) = 1
    /\ raised.kind = "QueryExecutionFailure"

\* C8: the cursor a session opened is closed when the session has ended, by
\* exhaustion, ceiling, failure or the consumer closing the sequence; it is
\* closed once, as the last thing that happens to it, and not before the end.
CursorCloses == {i \in 1..Len(cursorLog) : cursorLog[i] = "close"}

C8_CursorClosed ==
    /\ (Ended(gen) /\ cursorLog # <<>>) =>
          /\ CursorCloses = {Len(cursorLog)}
          /\ gen.cursor = "closed"
    /\ ~Ended(gen) => CursorCloses = {}
    /\ cursorLog # <<>> => cursorLog[1] = "open"

C8_Witness ==
    /\ gen.state = "closed"
    /\ Len(yielded) = 1
    /\ cursorLog = <<"open", "execute", "close">>

\* C9 (as claimed): after a fully consumed monitored session that delivered
\* P pages with R records, on the first or on a later session of the object,
\* the summary reports P pages, R records, the elapsed time of that session
\* and R / elapsed records per second (0 when elapsed is 0).
C9_Claim ==
    mon.state = "finished" =>
        LET s == get_metrics_summary(metrics)
            P == Len(received)
            R == SumCounts(received)
            T == mon.end_time - mon.start_time
        IN /\ s.total_pages_processed = P
           /\ s.total_records_processed = R
           /\ s.total_execution_time_seconds = T
           /\ IF T = 0 THEN s.records_per_second = Zero
              ELSE FracEq(s.records_per_second, Frac(R, T))

\* C10: when the underlying sequence of a monitored session fails, the
\* description of that failure is the one entry added to the end of the
\* error list, total_pages and total_records have grown by exactly the pages
\* and records delivered before the failure, total_execution_time is the
\* time elapsed since the session began, and the consumer is raised the
\* failure of the underlying sequence; in a session without failure the
\* error list stays as it was.
C10_FailureRecorded ==
    /\ mon.state = "raised" =>
          /\ raised # NoExc
          /\ metrics.errors = Append(metrics0.errors, Str(raised))
          /\ get_metrics_summary(metrics).error_count = Len(metrics0.errors) + 1
          /\ metrics.total_pages = metrics0.total_pages + Len(received)
          /\ metrics.total_records = metrics0.total_records + SumCounts(received)
          /\ metrics.total_execution_time = mon.end_time - mon.start_time
          /\ mRaised = raised
    /\ mon.state \in {"created", "suspended", "finished", "closed"} =>
          metrics.errors = metrics0.errors

\* a second monitored session failing after one page, after a failed first
C10_Witness ==
    /\ mon.state = "raised"
    /\ Len(metrics0.errors) = 1
    /\ Len(received) = 1
    /\ raised.kind = "QueryExecutionFailure"
    /\ Len(metrics.errors) = 2

\* invocations 1..k of func failed
FailedUpTo(k) == \A j \in 1..k : ~invoked[j].ok

\* C5: with max_retries >= 1 and func failing on every invocation, the
\* wrapper ends by raising after exactly max_retries invocations, and what it
\* raises is the exception object of the last invocation.
C5_Exhausted ==
    (rw.max_retries >= 1 /\ rw.pc \in {"raised", "returned"}
        /\ FailedUpTo(Len(invoked))) =>
        /\ rw.pc = "raised"
        /\ Len(invoked) = rw.max_retries
        /\ rw.raised = invoked[rw.max_retries].exc

C5_Witness ==
    /\ rw.max_retries = 3 /\ rw.pc = "raised"
    /\ Len(invoked) = 3 /\ FailedUpTo(3)
    /\ rw.raised = OperationFailed(3)

\* C6: when func fails on its first k invocations and succeeds on the next,
\* 0 <= k <= max_retries - 1, the wrapper returns the result of invocation
\* k+1 and invokes nothing after it; the waits are backoff_factor^0 ..
\* backoff_factor^(k-1) in this order, none after the last attempt.
C6_ReturnsAfterBackoff ==
    /\ \A j \in 1..Len(invoked) :
          invoked[j].ok => (j = Len(invoked) /\ rw.pc = "returned")
    /\ rw.pc = "returned" =>
          LET k == Len(invoked) - 1 IN
          /\ 0 <= k /\ k <= rw.max_retries - 1
          /\ FailedUpTo(k) /\ invoked[k + 1].ok
          /\ rw.returned = Some(invoked[k + 1].value)
          /\ slept = [i \in 1..k |-> Pow(rw.backoff_factor, i - 1)]
          /\ SumSeq(slept) = SumSeq([i \in 1..k |-> Pow(rw.backoff_factor, i - 1)])
    /\ rw.pc = "raised" => Len(slept) = Len(invoked) - 1 \/ rw.max_retries = 0

C6_Witness ==
    /\ rw.pc = "returned" /\ rw.max_retries = 3 /\ rw.backoff_factor = 3
    /\ Len(invoked) = 3
    /\ slept = <<1, 3>>
    /\ rw.returned = Some(3)

\* C14 (as claimed): in a ResilientPaginator session (rw holds the arguments
\* of its @retry_on_failure(max_retries=3)) a page fetch that fails is
\* attempted max_retries times before the session raises.
C14_Claim ==
    (gen.state = "raised" /\ fetchLog # <<>>) =>
        Cardinality({j \in 1..Len(fetchLog) :
                        fetchLog[j].offset = fetchLog[Len(fetchLog)].offset})
            = rw.max_retries

\* C18: every page a session yielded has total_records equal to the length
\* of its data, at least 1 and, the source answering with at most the
\* requested limit of rows, at most page_size.
C18_PageCounts ==
    \A k \in 1..Len(yielded) :
        /\ yielded[k].total_records = Len(yielded[k].data)
        /\ yielded[k].total_records >= 1
        /\ fetchLog[k].rows <= fetchLog[k].limit
        /\ yielded[k].total_records = fetchLog[k].rows
        /\ yielded[k].total_records <= gen.page_size

\* a full page followed by a partial one
C18_Witness ==
    /\ gen.page_size = 2
    /\ Len(yielded) = 2
    /\ yielded[1].total_records = 2
    /\ yielded[2].total_records = 1

\* C19 (as claimed): once a session has ended by exhaustion, by the ceiling
\* or by a failure, the paginator holds no open connection.
C19_Claim ==
    gen.state \in {"finished", "raised"} => connection = "none"

\* C20 (as claimed): in every state, between or during monitored sessions,
\* the summary has average_page_execution_time 0 when no page is counted and
\* total_execution_time_seconds / total_pages_processed otherwise, and
\* records_per_second 0 when the time is 0 and total_records_processed /
\* total_execution_time_seconds otherwise.
C20_Claim ==
    LET s == get_metrics_summary(metrics) IN
    /\ IF s.total_pages_processed = 0
       THEN s.average_page_execution_time = Zero
       ELSE FracEq(s.average_page_execution_time,
                   Frac(s.total_execution_time_seconds, s.total_pages_processed))
    /\ IF s.total_execution_time_seconds = 0
       THEN s.records_per_second = Zero
       ELSE FracEq(s.records_per_second,
                   Frac(s.total_records_processed, s.total_execution_time_seconds))

\* what a get of (query_hash, page_num) has to return at time t
Expected(query_hash, page_num, t) ==
    LET id == <<query_hash, page_num>> IN
    IF id \in DOMAIN applied /\ t - applied[id].at < cache_ttl
    THEN Some(applied[id].page) ELSE None

\* C11: get_cached_page(h, n), when it returns, returns the page most
\* recently stored under (h, n) if that store is less than cache_ttl old, and
\* None if the entry has expired or nothing was stored under (h, n); stores
\* under other pairs do not matter.
C11_GetAfterPut ==
    got.called => got.result = Expected(got.query_hash, got.page_num, now)

\* a hit one time unit before expiry, with another pair stored later
C11_Witness ==
    /\ got.called
    /\ got.result # None
    /\ now - applied[<<got.query_hash, got.page_num>>].at = cache_ttl - 1
    /\ \E id \in DOMAIN applied :
          /\ id # <<got.query_hash, got.page_num>>
          /\ applied[id].at > applied[<<got.query_hash, got.page_num>>].at
          /\ applied[id].page # got.result[1]

\* C12 (as claimed): no cache call raises a failure to its caller, also
\* when the backend is unreachable.
C12_Claim == cacheErr = NoExc

\* C13: the Redis entry of a pair is the whole pickled page of the store
\* applied last under it, expiring cache_ttl after that store, whatever was
\* stored there before and whichever sessions race; a get that finds it
\* returns that page.
C13_LastWriterWins ==
    /\ \A id \in DOMAIN applied :
          LET key == CacheKey(id[1], id[2]) IN
          /\ key \in DOMAIN redis
          /\ redis[key] = [value |-> dumps(applied[id].page),
                           expire |-> applied[id].at + cache_ttl]
    /\ (got.called /\ got.result # None) =>
          got.result[1] = applied[<<got.query_hash, got.page_num>>].page

\* two sessions had a store for the same pair in flight; the one applied
\* last replaced the other's page and its entry outlives the first one's ttl
C13_Witness ==
    /\ got.called /\ got.result # None
    /\ LET a == applied[<<got.query_hash, got.page_num>>] IN
       /\ a.over # None /\ a.over[1] # a.page
       /\ a.raced
       /\ a.at > 0
       /\ now >= cache_ttl
       /\ got.result[1] = a.page

\* the futures whose worker has run
Finished == {i \in 1..Len(futures) : futures[i].state = "done"}

\* C15 (as claimed): every worker has run its pagination session, on a
\* connection handle that no other worker has used.
C15_Claim ==
    \A i \in Finished :
        /\ futures[i].conn # "none"
        /\ \A j \in Finished \ {i} : futures[j].conn # futures[i].conn

\* the records of the futures in q that succeeded, in the order of q
RECURSIVE Succeeded(_)
Succeeded(q) ==
    IF q = <<>> THEN <<>>
    ELSE (IF futures[q[1]].exc = NoExc THEN futures[q[1]].results ELSE <<>>)
         \o Succeeded(Tail(q))

\* C16: process_pages_parallel never raises; it returns only when the worker
\* of every submitted range has run and been collected, a failed worker
\* leaving the others to run; all_results holds the records of the
\* succeeded workers collected so far, in completion order, and nothing of
\* a failed one.
C16_CollectsAll ==
    /\ orch.pc # "raised"
    /\ orch.all_results = Succeeded(orch.completed)
    /\ orch.pc = "returned" =>
          /\ Finished = 1..Len(page_ranges)
          /\ Range(orch.completed) = 1..Len(page_ranges)
          /\ Len(orch.completed) = Len(page_ranges)

\* three ranges whose workers all failed, collected out of range order
C16_Witness ==
    /\ orch.pc = "returned"
    /\ Len(page_ranges) = 3
    /\ \A i \in 1..3 : futures[i].exc # NoExc
    /\ orch.completed = <<2, 3, 1>>
    /\ orch.all_results = <<>>

\* C17 (as claimed): with disjoint ranges that cover the source and no
\* failing fetch, the list process_pages_parallel returns holds every row of
\* the source exactly once.
C17_Claim ==
    (orch.pc = "returned" /\ Len(page_ranges) * RangeWidth >= srcRows) =>
        /\ Len(orch.all_results) = srcRows
        /\ \A r \in 1..srcRows :
              \E k \in 1..Len(orch.all_results) :
                  orch.all_results[k] = RowDict(<<r>>)

====
